---- MODULE Spec2Model ----
(***************************************************************************)
(* Model of club_api.py: the authenticated client GeoGuessrClubAPI, the    *)
(* member record ClubMember with its flattening transform, the CSV export  *)
(* and the __main__ orchestration that drives them.                        *)
(*                                                                         *)
(* Python values are tagged records [t, n, s, d]:                          *)
(*   t = "null" (None / JSON null), "num" (n), "str" (s), "obj" (d, the    *)
(*   dict's items in insertion order, each [k |-> key, v |-> value]).      *)
(* Key strings are TLA+ strings, joined with \o as the f-strings join them.*)
(***************************************************************************)
EXTENDS Integers, Sequences, FiniteSets, TLC

VARIABLES
    environ,    \* os.getenv("NCFA_TOKEN") after load_dotenv(): a value, None when unset
    api,        \* the GeoGuessrClubAPI object: its session's _ncfa cookie and headers
    pc,         \* position of the running script / life-cycle of the object under call
    profile,    \* __main__: the profile document
    CLUB_ID,    \* __main__: the extracted club identifier
    members,    \* the ClubMember objects, in list order
    i,          \* __main__: enumerate(members, 1) index of the member being fetched
    trace,      \* requests sent through session.get and update_* calls, in order
    last,       \* the most recent method call on an object: [op, arg, ret]
    error,      \* class of the exception that ended the run / the call, "" when none
    csv,        \* the file written by DataFrame.to_csv
    stdout      \* lines printed

vars == <<environ, api, pc, profile, CLUB_ID, members, i, trace, last, error, csv, stdout>>

----------------------------------------------------------------------------
(* Python / JSON values *)

Null == [t |-> "null", n |-> 0, s |-> "", d |-> <<>>]
Num(x) == [t |-> "num", n |-> x, s |-> "", d |-> <<>>]
Str(x) == [t |-> "str", n |-> 0, s |-> x, d |-> <<>>]
Obj(items) == [t |-> "obj", n |-> 0, s |-> "", d |-> items]
Entry(key, val) == [k |-> key, v |-> val]
EmptyObj == Obj(<<>>)

isinstance_dict(v) == v.t = "obj"

\* Python truthiness, as used by `not x` and `x or {}`
Truthy(v) ==
    CASE v.t = "null" -> FALSE
      [] v.t = "num" -> v.n # 0
      [] v.t = "str" -> v.s # ""
      [] OTHER -> v.d # <<>>

Keys(d) == {d.d[j].k : j \in 1..Len(d.d)}
Lookup(d, key) == (CHOOSE j \in 1..Len(d.d) : d.d[j].k = key)
Value(d, key) == d.d[Lookup(d, key)].v

\* d.get(key, default)
get(d, key, default) == IF key \in Keys(d) THEN Value(d, key) ELSE default

\* d[key] = val on an insertion-ordered dict: replace in place, else append
SetItem(items, e) ==
    IF \E j \in 1..Len(items) : items[j].k = e.k
    THEN [j \in 1..Len(items) |-> IF items[j].k = e.k THEN e ELSE items[j]]
    ELSE Append(items, e)

\* dict(items) / {**a, **b, ...}: later items win, first position kept
RECURSIVE dict_into(_, _)
dict_into(acc, items) ==
    IF items = <<>> THEN acc
    ELSE dict_into(SetItem(acc, Head(items)), Tail(items))
dict(items) == Obj(dict_into(<<>>, items))

\* str(v) as an f-string or print renders it
str(v) ==
    CASE v.t = "null" -> "None"
      [] v.t = "num" -> ToString(v.n)
      [] v.t = "str" -> v.s
      [] OTHER -> "{...}"

----------------------------------------------------------------------------
(* class ClubMember *)

\* __init__ raises AttributeError when data["user"] is present but no dict
ClubMember_raises(data) == ~isinstance_dict(get(data, "user", EmptyObj))

ClubMember(data) ==
    LET raw_user == get(data, "user", EmptyObj)
    IN  [raw_membership |-> Obj(SelectSeq(data.d, LAMBDA e : e.k # "user")),
         raw_user |-> raw_user,
         user_id |-> get(raw_user, "userId", Str("")),
         stats |-> EmptyObj,
         peak_rating |-> EmptyObj]

nick(m) == get(m.raw_user, "nick", Str(""))

\* update_stats without the `or {}`
update_stats_raw(m, stats) == [m EXCEPT !.stats = stats]

update_stats(m, stats) ==
    [m EXCEPT !.stats = IF Truthy(stats) THEN stats ELSE EmptyObj]

update_peak_rating(m, rating) ==
    [m EXCEPT !.peak_rating = IF Truthy(rating) THEN rating ELSE EmptyObj]

sep == "."

RECURSIVE flatten_dict(_, _)
RECURSIVE flatten_items(_, _)
\* the for loop of flatten_dict over d.items(), building the list `items`
flatten_items(items, parent_key) ==
    IF items = <<>> THEN <<>>
    ELSE LET e == Head(items)
             new_key == IF parent_key # "" THEN parent_key \o sep \o e.k ELSE e.k
         IN  (IF isinstance_dict(e.v)
              THEN flatten_dict(e.v, new_key).d
              ELSE <<Entry(new_key, e.v)>>)
             \o flatten_items(Tail(items), parent_key)

flatten_dict(d, parent_key) == dict(flatten_items(d.d, parent_key))

\* to_dict with the stats prefix used for the peak rating too
to_dict_shared_prefix(m) ==
    dict(flatten_dict(m.raw_user, "user").d \o flatten_dict(m.raw_membership, "membership").d
         \o flatten_dict(m.stats, "stats").d \o flatten_dict(m.peak_rating, "stats").d)

to_dict(m) ==
    LET base_user == flatten_dict(m.raw_user, "user")
        base_membership == flatten_dict(m.raw_membership, "membership")
        flat_stats == flatten_dict(m.stats, "stats")
        flat_rating == flatten_dict(m.peak_rating, "peakRating")
    IN  dict(base_user.d \o base_membership.d \o flat_stats.d \o flat_rating.d)

----------------------------------------------------------------------------
(* class GeoGuessrClubAPI *)

BASE_URL == "https://www.geoguessr.com/api"

NoApi == [created |-> FALSE, ncfa |-> "", user_agent |-> "", accept |-> ""]

\* __init__ without the fallback to the environment
init_token_arg_only(ncfa_token) == ncfa_token

\* __init__: the token after the fallback to the environment
init_token(ncfa_token) == IF ~Truthy(ncfa_token) THEN environ ELSE ncfa_token

\* __init__ raises ValueError
init_raises(ncfa_token) == ~Truthy(init_token(ncfa_token))

GeoGuessrClubAPI(ncfa_token) ==
    [created |-> TRUE,
     ncfa |-> str(init_token(ncfa_token)),
     user_agent |-> "GeoStatsClub/1.0",
     accept |-> "application/json"]

OK == 200

\* a response of the remote service: its status code and its JSON body
Response(status, body) == [status |-> status, body |-> body]

\* _get that returns None on every failure
get_raises_never(resp, raise_on_error) == FALSE

\* _get raises Exception("Failed to fetch ...")
get_raises(resp, raise_on_error) == resp.status # OK /\ raise_on_error

\* what _get returns when it does not raise
get_returns(resp) == IF resp.status = OK THEN resp.body ELSE Null

\* one request as sent, with the value of i at that moment
Request(path, resp) ==
    [op |-> "GET", url |-> BASE_URL \o path, status |-> resp.status, idx |-> i]

\* _get that sends the request again after a non-200 answer
session_get_retry(path, resp) ==
    IF resp.status # OK THEN <<Request(path, resp), Request(path, resp)>>
    ELSE <<Request(path, resp)>>

\* resp = self.session.get(url): the requests one call of _get sends
session_get(path, resp) == <<Request(path, resp)>>

profile_path == "/v3/profiles"
club_members_path(club_id) == "/v4/clubs/" \o str(club_id) \o "/members"
user_stats_path(user_id) == "/v4/stats/users/" \o str(user_id)
user_peak_rating_path(user_id) == "/v4/ranked-system/peak-rating/" \o str(user_id)

\* every method left at the default raise_on_error=True
raise_on_error_default(op) == TRUE

\* which of the four methods raise on a non-200 response
raise_on_error(op) == op \in {"get_profile", "get_club_members"}

----------------------------------------------------------------------------
(* export_members_to_csv: pd.DataFrame([m.to_dict() ...]).to_csv(index=False) *)

RECURSIVE concat_items(_)
concat_items(records) ==
    IF records = <<>> THEN <<>>
    ELSE Head(records).d \o concat_items(Tail(records))

\* columns taken from the first record alone
columns_of_first(records) ==
    IF records = <<>> THEN <<>>
    ELSE [j \in 1..Len(Head(records).d) |-> Head(records).d[j].k]

\* DataFrame columns: the union of the records' keys, in first-seen order
columns(records) ==
    LET all == dict(concat_items(records)).d
    IN  [j \in 1..Len(all) |-> all[j].k]

\* a missing key becomes NaN, and None is NA as well
isna(rec, col) == col \notin Keys(rec) \/ Value(rec, col).t = "null"

\* dtype inference: a column whose values are all numbers is int64, or float64
\* as soon as one of its cells is NA
float_column(records, col) ==
    /\ \E j \in 1..Len(records) : isna(records[j], col)
    /\ \A j \in 1..Len(records) :
          isna(records[j], col) \/ Value(records[j], col).t = "num"

Blank == ""

\* one field of a data row as to_csv writes it (na_rep = "")
cell(records, rec, col) ==
    IF isna(rec, col) THEN Blank
    ELSE LET v == Value(rec, col)
         IN  IF v.t = "num" /\ float_column(records, col)
             THEN ToString(v.n) \o ".0"
             ELSE str(v)

to_csv(records) ==
    LET cols == columns(records)
    IN  [written |-> TRUE,
         header |-> cols,
         rows |-> [j \in 1..Len(records) |->
                     [c \in 1..Len(cols) |-> cell(records, records[j], cols[c])]]]

NoFile == [written |-> FALSE, header |-> <<>>, rows |-> <<>>]

flattened(ms) == [j \in 1..Len(ms) |-> to_dict(ms[j])]

----------------------------------------------------------------------------
(* Inputs: what the environment and the remote service may hand the program *)

MaxMembers == 2     \* longest member list the service returns
MaxCalls == 2       \* most requests made through one client object on its own

\* NCFA_TOKEN: unset, set to the empty string, set
EnvValues == {Null, Str(""), Str("env-token")}
\* the constructor's ncfa_token argument: None, "", a token
TokenArgs == {Null, Str(""), Str("arg-token")}

Statuses == {OK, 404, 500}

\* every injective sequence over a set of keys: the key orders of a dict
RECURSIVE KeyOrders(_)
KeyOrders(keys) ==
    {<<>>} \cup UNION {{<<k>> \o r : r \in KeyOrders(keys \ {k})} : k \in keys}

\* every dict with keys among `keys`, in any order, and values among `vals`
Dicts(keys, vals) ==
    UNION {{Obj([j \in 1..Len(ks) |-> Entry(ks[j], f[j])]) : f \in [1..Len(ks) -> vals]}
           : ks \in KeyOrders(keys)}

\* profile documents: with a club, and every way of carrying none
ProfileDocs ==
    LET User(u) == Obj(<<Entry("nick", Str("me")), Entry("user", u)>>)
        Club(c) == User(Obj(<<Entry("club", c)>>))
        ClubId(x) == Club(Obj(<<Entry("tag", Str("GEO")), Entry("clubId", x)>>))
    IN  {Obj(<<Entry("nick", Str("me"))>>), User(Null), User(EmptyObj),
         Club(Null), Club(EmptyObj),
         ClubId(Null), ClubId(Str("")), ClubId(Str("c1"))}

\* membership entries of the member list
RosterEntries ==
    {Obj(<<Entry("user", Obj(<<Entry("userId", Str("u1")), Entry("nick", Str("Alice"))>>)),
           Entry("role", Str("admin"))>>),
     Obj(<<Entry("role", Str("member")),
           Entry("user", Obj(<<Entry("userId", Str("u2")), Entry("nick", Null)>>))>>),
     Obj(<<Entry("xp", Num(7))>>)}

Rosters == UNION {[1..n -> RosterEntries] : n \in 0..MaxMembers}

\* bodies of the user-stats endpoint
StatsBodies ==
    {Obj(<<Entry("a", Num(1))>>),
     Obj(<<Entry("a", Null)>>),
     Obj(<<Entry("a", Obj(<<Entry("b", Num(2))>>))>>)}

\* bodies of the peak-rating endpoint
RatingBodies == {Obj(<<Entry("peak", Obj(<<Entry("rating", Num(900))>>))>>)}

\* constructor arguments of a ClubMember on its own
EntryDocs ==
    LET UserParts == {<<>>,
                      <<Entry("user", EmptyObj)>>,
                      <<Entry("user", Obj(<<Entry("userId", Str("u1")),
                                            Entry("nick", Str("Alice"))>>))>>,
                      <<Entry("user", Obj(<<Entry("a", Num(1))>>))>>}
        MembershipParts == {<<>>,
                            <<Entry("role", Str("admin"))>>,
                            <<Entry("a.b", Num(3)), Entry("a", Obj(<<Entry("b", Num(4))>>))>>}
    IN  {Obj(u \o m) : u \in UserParts, m \in MembershipParts}

\* arguments of update_stats / update_peak_rating (Optional[dict]): None, {} and
\* nested documents, some with a key that holds the separator
UpdateArgs ==
    {Null} \cup Dicts({"a", "a.b"},
                      {Num(1), EmptyObj, Obj(<<Entry("b", Num(2))>>)})

\* identifiers passed to the client's methods
Ids == {Str("x1"), Str("x2")}

Responses(bodies) ==
    {Response(st, b) : st \in Statuses \ {OK}, b \in {Null}}
        \cup {Response(OK, b) : b \in bodies}

NoCall == [op |-> "", arg |-> Null, ret |-> Null]

----------------------------------------------------------------------------
(* __main__ *)

Init ==
    /\ environ \in EnvValues
    /\ api = NoApi
    /\ pc = "start"
    /\ profile = Null
    /\ CLUB_ID = Null
    /\ members = <<>>
    /\ i = 0
    /\ trace = <<>>
    /\ last = NoCall
    /\ error = ""
    /\ csv = NoFile
    /\ stdout = <<>>

\* a loop that stops after its first member
exhausted_after_first(ms) == i >= 1 \/ i >= Len(ms)

\* for i, member in enumerate(members, 1): no member is left after the i-th
exhausted(ms) == i >= Len(ms)

Raise(exc) ==
    /\ pc' = "failed"
    /\ error' = exc

\* api = GeoGuessrClubAPI()
Construct ==
    /\ pc = "start"
    /\ IF init_raises(Null)
       THEN /\ Raise("ValueError")
            /\ UNCHANGED api
       ELSE /\ api' = GeoGuessrClubAPI(Null)
            /\ pc' = "profile"
            /\ UNCHANGED error
    /\ UNCHANGED <<environ, profile, CLUB_ID, members, i, trace, last, csv, stdout>>

\* profile.get("user", {}).get("club", {}).get("clubId"), with the exception a
\* non-dict link of the chain raises
club_id_raises(doc) ==
    \/ ~isinstance_dict(doc)
    \/ ~isinstance_dict(get(doc, "user", EmptyObj))
    \/ ~isinstance_dict(get(get(doc, "user", EmptyObj), "club", EmptyObj))

club_id(doc) == get(get(get(doc, "user", EmptyObj), "club", EmptyObj), "clubId", Null)

\* profile = api.get_profile(); CLUB_ID = ...; if not CLUB_ID: raise ValueError
GetProfile ==
    /\ pc = "profile"
    /\ \E resp \in Responses(ProfileDocs) :
        /\ trace' = trace \o session_get(profile_path, resp)
        /\ IF get_raises(resp, raise_on_error("get_profile"))
           THEN /\ Raise("Exception")
                /\ UNCHANGED <<profile, CLUB_ID>>
           ELSE /\ profile' = get_returns(resp)
                /\ IF club_id_raises(get_returns(resp))
                   THEN /\ Raise("AttributeError")
                        /\ UNCHANGED CLUB_ID
                   ELSE /\ CLUB_ID' = club_id(get_returns(resp))
                        /\ IF ~Truthy(club_id(get_returns(resp)))
                           THEN Raise("ValueError")
                           ELSE /\ pc' = "members"
                                /\ UNCHANGED error
    /\ UNCHANGED <<environ, api, members, i, last, csv, stdout>>

\* members_json = api.get_club_members(CLUB_ID); members = [ClubMember(m) ...]
GetMembers ==
    /\ pc = "members"
    /\ \E st \in Statuses, members_json \in Rosters :
        LET resp == Response(st, Null)
        IN  /\ trace' = trace \o session_get(club_members_path(CLUB_ID), resp)
            /\ IF get_raises(resp, raise_on_error("get_club_members"))
               THEN /\ Raise("Exception")
                    /\ UNCHANGED <<members, i, stdout>>
               ELSE IF \E j \in 1..Len(members_json) : ClubMember_raises(members_json[j])
               THEN /\ Raise("AttributeError")
                    /\ UNCHANGED <<members, i, stdout>>
               ELSE /\ members' = [j \in 1..Len(members_json) |-> ClubMember(members_json[j])]
                    /\ stdout' = Append(stdout, "Fetching user stats and ratings...")
                    /\ IF exhausted(members_json)
                       THEN pc' = "export" /\ UNCHANGED i
                       ELSE pc' = "stats" /\ i' = 1
                    /\ UNCHANGED error
    /\ UNCHANGED <<environ, api, profile, CLUB_ID, last, csv>>

Update(op) == [op |-> op, url |-> "", status |-> 0, idx |-> i]

\* stats = api.get_user_stats(member.user_id); member.update_stats(stats)
FetchStats ==
    /\ pc = "stats"
    /\ \E resp \in Responses(StatsBodies) :
        /\ IF get_raises(resp, raise_on_error("get_user_stats"))
           THEN /\ trace' = trace \o session_get(user_stats_path(members[i].user_id), resp)
                /\ Raise("Exception")
                /\ UNCHANGED members
           ELSE /\ trace' = trace \o session_get(user_stats_path(members[i].user_id), resp)
                                 \o <<Update("update_stats")>>
                /\ members' = [members EXCEPT ![i] = update_stats(@, get_returns(resp))]
                /\ pc' = "rating"
                /\ UNCHANGED error
    /\ UNCHANGED <<environ, api, profile, CLUB_ID, i, last, csv, stdout>>

\* rating = api.get_user_peak_rating(member.user_id); member.update_peak_rating(rating);
\* print(...); time.sleep(0.2); then the next member, or the export after the last
FetchRating ==
    /\ pc = "rating"
    /\ \E resp \in Responses(RatingBodies) :
        /\ IF get_raises(resp, raise_on_error("get_user_peak_rating"))
           THEN /\ trace' = trace
                            \o session_get(user_peak_rating_path(members[i].user_id), resp)
                /\ Raise("Exception")
                /\ UNCHANGED <<members, i, stdout>>
           ELSE /\ trace' = trace
                            \o session_get(user_peak_rating_path(members[i].user_id), resp)
                            \o <<Update("update_peak_rating")>>
                /\ members' = [members EXCEPT ![i] = update_peak_rating(@, get_returns(resp))]
                /\ stdout' = Append(stdout,
                       "[" \o ToString(i) \o "/" \o ToString(Len(members))
                           \o "] Fetched stats for " \o str(nick(members[i])))
                /\ IF exhausted(members)
                   THEN pc' = "export" /\ UNCHANGED i
                   ELSE i' = i + 1 /\ pc' = "stats"
                /\ UNCHANGED error
    /\ UNCHANGED <<environ, api, profile, CLUB_ID, last, csv>>

\* export_members_to_csv(members, "club_members_with_all_stats.csv"); the write
\* either succeeds or raises OSError
Export ==
    /\ pc = "export"
    /\ \E writable \in BOOLEAN :
        IF writable
        THEN /\ csv' = to_csv(flattened(members))
             /\ stdout' = Append(stdout, "Exported " \o ToString(Len(members))
                    \o " members to club_members_with_all_stats.csv")
             /\ pc' = "done"
             /\ UNCHANGED error
        ELSE /\ Raise("OSError")
             /\ UNCHANGED <<csv, stdout>>
    /\ UNCHANGED <<environ, api, profile, CLUB_ID, members, i, trace, last>>

Next ==
    \/ Construct
    \/ GetProfile
    \/ GetMembers
    \/ FetchStats
    \/ FetchRating
    \/ Export

Spec == Init /\ [][Next]_vars

----------------------------------------------------------------------------
(* A GeoGuessrClubAPI object on its own: constructed with any argument, then
   called through its four methods *)

ClientInit ==
    /\ environ \in EnvValues
    /\ api = NoApi
    /\ pc = "new"
    /\ profile = Null
    /\ CLUB_ID = Null
    /\ members = <<>>
    /\ i = 0
    /\ trace = <<>>
    /\ last = NoCall
    /\ error = ""
    /\ csv = NoFile
    /\ stdout = <<>>

Call(op, arg, ret) == [op |-> op, arg |-> arg, ret |-> ret]

New ==
    /\ pc = "new"
    /\ \E ncfa_token \in TokenArgs :
        /\ last' = Call("__init__", ncfa_token, Null)
        /\ IF init_raises(ncfa_token)
           THEN /\ pc' = "raised"
                /\ error' = "ValueError"
                /\ UNCHANGED api
           ELSE /\ api' = GeoGuessrClubAPI(ncfa_token)
                /\ pc' = "ready"
                /\ UNCHANGED error
    /\ UNCHANGED <<environ, profile, CLUB_ID, members, i, trace, csv, stdout>>

\* one call of a method that is _get(path, raise_on_error) underneath
ClientGet(op, path, arg, bodies) ==
    /\ pc = "ready"
    /\ Len(trace) < MaxCalls
    /\ \E resp \in Responses(bodies) :
        /\ trace' = trace \o session_get(path, resp)
        /\ IF get_raises(resp, raise_on_error(op))
           THEN /\ error' = "Exception"
                /\ last' = Call(op, arg, Null)
           ELSE /\ error' = ""
                /\ last' = Call(op, arg, get_returns(resp))
    /\ UNCHANGED <<environ, api, pc, profile, CLUB_ID, members, i, csv, stdout>>

get_profile == ClientGet("get_profile", profile_path, Null, {EmptyObj})

get_club_members ==
    \E club_id_arg \in Ids :
        ClientGet("get_club_members", club_members_path(club_id_arg), club_id_arg, {EmptyObj})

get_user_stats ==
    \E user_id \in Ids :
        ClientGet("get_user_stats", user_stats_path(user_id), user_id, StatsBodies)

get_user_peak_rating ==
    \E user_id \in Ids :
        ClientGet("get_user_peak_rating", user_peak_rating_path(user_id), user_id,
                  RatingBodies)

ClientNext ==
    \/ New
    \/ get_profile
    \/ get_club_members
    \/ get_user_stats
    \/ get_user_peak_rating

SpecClient == ClientInit /\ [][ClientNext]_vars

----------------------------------------------------------------------------
(* A ClubMember object on its own: constructed from any membership entry, then
   updated and flattened in any order, any number of times *)

MemberInit ==
    /\ \E data \in EntryDocs :
        /\ members = <<ClubMember(data)>>
        /\ last = Call("__init__", data, Null)
    /\ environ = Null
    /\ api = NoApi
    /\ pc = "member"
    /\ profile = Null
    /\ CLUB_ID = Null
    /\ i = 0
    /\ trace = <<>>
    /\ error = ""
    /\ csv = NoFile
    /\ stdout = <<>>

Frame == UNCHANGED <<environ, api, pc, profile, CLUB_ID, i, trace, error, csv, stdout>>

UpdateStats ==
    /\ pc = "member"
    /\ \E stats \in UpdateArgs :
        /\ members' = <<update_stats(members[1], stats)>>
        /\ last' = Call("update_stats", stats, Null)
    /\ Frame

UpdatePeakRating ==
    /\ pc = "member"
    /\ \E rating \in UpdateArgs :
        /\ members' = <<update_peak_rating(members[1], rating)>>
        /\ last' = Call("update_peak_rating", rating, Null)
    /\ Frame

ToDict ==
    /\ pc = "member"
    /\ last' = Call("to_dict", Null, to_dict(members[1]))
    /\ UNCHANGED members
    /\ Frame

Nick ==
    /\ pc = "member"
    /\ last' = Call("nick", Null, nick(members[1]))
    /\ UNCHANGED members
    /\ Frame

MemberNext ==
    \/ UpdateStats
    \/ UpdatePeakRating
    \/ ToDict
    \/ Nick

SpecMember == MemberInit /\ [][MemberNext]_vars

----------------------------------------------------------------------------
(* Properties of the run of __main__ *)

\* positions of the trace
Pos == 1..Len(trace)
IsGet(p) == trace[p].op = "GET"
\* the request for the stats / the peak rating of the j-th member
IsStatsGet(p, j) ==
    /\ IsGet(p) /\ trace[p].idx = j
    /\ trace[p].url = BASE_URL \o user_stats_path(members[j].user_id)
IsRatingGet(p, j) ==
    /\ IsGet(p) /\ trace[p].idx = j
    /\ trace[p].url = BASE_URL \o user_peak_rating_path(members[j].user_id)
IsUpdate(p, op, j) == trace[p].op = op /\ trace[p].idx = j
\* a request made before the loop: the profile, then the member list
IsProfileGet(p) == IsGet(p) /\ trace[p].url = BASE_URL \o profile_path
IsMembersGet(p) == IsGet(p) /\ trace[p].idx = 0 /\ ~IsProfileGet(p)
Count(P(_)) == Cardinality({p \in Pos : P(p)})
ReachedExport == pc \in {"export", "done"} \/ error = "OSError"

\* the run ended on a request made for a member
PerMemberAbort ==
    /\ pc = "failed"
    /\ trace # <<>>
    /\ IsGet(Len(trace))
    /\ trace[Len(trace)].idx >= 1

\* C1: once the profile and the member list are fetched, no response to a
\* per-member request aborts the run: a member whose stats (peak-rating) request
\* was answered non-200 holds the empty mapping in that field, every member has
\* been requested when the export is reached, and the export writes one record
\* per member
C1_PerMemberFetchIsTolerant ==
    /\ ~PerMemberAbort
    /\ \A p \in Pos : \A j \in 1..Len(members) :
        /\ IsStatsGet(p, j) /\ trace[p].status # OK => members[j].stats = EmptyObj
        /\ IsRatingGet(p, j) /\ trace[p].status # OK => members[j].peak_rating = EmptyObj
    /\ ReachedExport =>
        \A j \in 1..Len(members) :
            /\ \E p \in Pos : IsStatsGet(p, j)
            /\ \E p \in Pos : IsRatingGet(p, j)
    /\ pc = "done" => Len(csv.rows) = Len(members) /\ Len(flattened(members)) = Len(members)

C1_Witness ==
    /\ pc = "done"
    /\ Len(members) = 2
    /\ \E p \in Pos : IsStatsGet(p, 1) /\ trace[p].status # OK
    /\ \E p \in Pos : IsRatingGet(p, 2) /\ trace[p].status # OK
    /\ members[2].stats # EmptyObj

\* C2: a non-200 answer to the profile or the member-list request raises the
\* request error (Exception("Failed to fetch ...")) and ends the run there: it is
\* the last request ever made, and no file is written
C2_MandatoryFetchFailureIsFatal ==
    \A p \in Pos :
        (IsProfileGet(p) \/ IsMembersGet(p)) /\ trace[p].status # OK =>
            /\ p = Len(trace)
            /\ pc = "failed"
            /\ error = "Exception"
            /\ members = <<>>
            /\ csv = NoFile

C2_Witness ==
    /\ pc = "failed"
    /\ Len(trace) = 2
    /\ IsMembersGet(2)
    /\ trace[2].status = 404
    /\ error = "Exception"

\* the profile carries no non-empty club identifier: `user` missing, `club`
\* missing or null, `clubId` missing, null or empty
NoClub(doc) ==
    \/ "user" \notin Keys(doc)
    \/ /\ isinstance_dict(Value(doc, "user"))
       /\ LET user == Value(doc, "user")
          IN  \/ "club" \notin Keys(user)
              \/ Value(user, "club") = Null
              \/ /\ isinstance_dict(Value(user, "club"))
                 /\ LET club == Value(user, "club")
                    IN  \/ "clubId" \notin Keys(club)
                        \/ Value(club, "clubId") \in {Null, Str("")}

\* C4: a fetched profile without a club identifier ends the run with the
\* configuration error (ValueError) right after the profile request: no
\* member-list request, no per-member request, no export
C4_NoClubIsConfigurationError ==
    profile # Null /\ NoClub(profile) =>
        /\ pc = "failed"
        /\ error = "ValueError"
        /\ Len(trace) = 1
        /\ csv = NoFile

\* the part of the trace made inside the loop
LoopTrace == SelectSeq(trace, LAMBDA e : e.idx >= 1)

\* C9: members are processed in list order, each as stats request, update_stats,
\* peak-rating request, update_peak_rating, the next member's first request
\* coming after both updates; the export is reached only after the last member's
\* two updates
C9_MembersInOrder ==
    LET loop == LoopTrace
        EventOf(q) ==
            LET j == ((q - 1) \div 4) + 1
                r == (q - 1) % 4
                e == loop[q]
            IN  /\ j <= Len(members)
                /\ e.idx = j
                /\ r = 0 => e.op = "GET"
                            /\ e.url = BASE_URL \o user_stats_path(members[j].user_id)
                /\ r = 1 => e.op = "update_stats"
                /\ r = 2 => e.op = "GET"
                            /\ e.url = BASE_URL \o user_peak_rating_path(members[j].user_id)
                /\ r = 3 => e.op = "update_peak_rating"
    IN  /\ \A q \in 1..Len(loop) : EventOf(q)
        /\ pc = "stats" => Len(loop) = 4 * (i - 1)
        /\ pc = "rating" => Len(loop) = 4 * (i - 1) + 2
        /\ ReachedExport \/ csv.written => Len(loop) = 4 * Len(members)

C9_Witness ==
    /\ pc = "done"
    /\ Len(members) = 2
    /\ members[1].user_id # members[2].user_id
    /\ Len(LoopTrace) = 8

\* C10: no request is repeated: at most one profile and one member-list request,
\* at most one stats and one peak-rating request per member; a run that reaches
\* the export for N members has sent 2 + 2N requests and has called update_stats
\* and update_peak_rating once on each member
C10_NoRequestRepeated ==
    /\ Count(IsProfileGet) <= 1
    /\ Count(IsMembersGet) <= 1
    /\ \A j \in 1..Len(members) :
        /\ Count(LAMBDA p : IsGet(p) /\ trace[p].idx = j
                    /\ trace[p].url = BASE_URL \o user_stats_path(members[j].user_id)) <= 1
        /\ Count(LAMBDA p : IsGet(p) /\ trace[p].idx = j
                    /\ trace[p].url = BASE_URL \o user_peak_rating_path(members[j].user_id)) <= 1
        /\ Count(LAMBDA p : IsGet(p) /\ trace[p].idx = j) <= 2
    /\ ReachedExport =>
        /\ Count(IsGet) = 2 + 2 * Len(members)
        /\ \A j \in 1..Len(members) :
            /\ Count(LAMBDA p : IsUpdate(p, "update_stats", j)) = 1
            /\ Count(LAMBDA p : IsUpdate(p, "update_peak_rating", j)) = 1

C10_Witness ==
    /\ pc = "done"
    /\ Len(members) = 2
    /\ Count(IsGet) = 6
    /\ \E p \in Pos : IsGet(p) /\ trace[p].idx = 1 /\ trace[p].status # OK

\* the data row of the j-th record and its cell under column c
Cell(j, c) == csv.rows[j][c]
HeaderKeys == {csv.header[c] : c \in 1..Len(csv.header)}

\* C8, as claimed: one row per record in input order, the header is the union
\* of the records' keys, and a cell is blank exactly when its record lacks the
\* column's key
C8_BlankExactlyForLackingKeys ==
    pc = "done" =>
        LET recs == flattened(members)
        IN  /\ Len(csv.rows) = Len(recs)
            /\ HeaderKeys = UNION {Keys(recs[j]) : j \in 1..Len(recs)}
            /\ \A j \in 1..Len(recs) : \A c \in 1..Len(csv.header) :
                 Cell(j, c) = Blank <=> csv.header[c] \notin Keys(recs[j])

\* C8, amended: one row per record in input order, the header is the union of
\* the records' keys, each once; a cell is blank when its record lacks the
\* column's key or holds it with a null or empty-string value, and every other
\* cell carries the record's value (an integer as a float where its column has a
\* blank)
C8_ExportRows ==
    pc = "done" =>
        LET recs == flattened(members)
        IN  /\ csv.written
            /\ Len(csv.rows) = Len(recs)
            /\ HeaderKeys = UNION {Keys(recs[j]) : j \in 1..Len(recs)}
            /\ Cardinality(HeaderKeys) = Len(csv.header)
            /\ \A j \in 1..Len(recs) :
                /\ Len(csv.rows[j]) = Len(csv.header)
                /\ \A c \in 1..Len(csv.header) :
                     IF csv.header[c] \notin Keys(recs[j])
                     THEN Cell(j, c) = Blank
                     ELSE LET v == Value(recs[j], csv.header[c])
                          IN  IF v \in {Null, Str("")}
                              THEN Cell(j, c) = Blank
                              ELSE /\ Cell(j, c) # Blank
                                   /\ Cell(j, c) \in {str(v), str(v) \o ".0"}

\* member 1 has stats, the stats request of member 2 failed: the stats column is
\* populated in row 1 and blank in row 2
C8_Witness ==
    /\ pc = "done"
    /\ Len(members) = 2
    /\ \E p \in Pos : IsStatsGet(p, 2) /\ trace[p].status # OK
    /\ \E c \in 1..Len(csv.header) :
        /\ csv.header[c] = "stats.a"
        /\ Cell(1, c) # Blank
        /\ Cell(2, c) = Blank

----------------------------------------------------------------------------
(* Properties of the client object *)

\* C3: with no non-empty credential as argument or in the environment the
\* constructor raises the configuration error (ValueError) and no request has
\* been sent; with a non-empty credential from either source it succeeds, the
\* argument taking precedence
C3_CredentialRequired ==
    /\ pc = "raised" =>
        /\ last.op = "__init__"
        /\ ~Truthy(last.arg) /\ ~Truthy(environ)
        /\ error = "ValueError"
        /\ trace = <<>>
        /\ api = NoApi
    /\ last.op = "__init__" /\ ~Truthy(last.arg) /\ ~Truthy(environ) => pc = "raised"
    /\ last.op = "__init__" /\ Truthy(last.arg) =>
        pc = "ready" /\ api.created /\ api.ncfa = last.arg.s /\ error = ""
    /\ last.op = "__init__" /\ ~Truthy(last.arg) /\ Truthy(environ) =>
        pc = "ready" /\ api.created /\ api.ncfa = environ.s /\ error = ""
    /\ pc = "ready" => api.created /\ api.ncfa # ""

C3_Witness ==
    /\ pc = "raised"
    /\ last.arg = Null
    /\ environ = Str("")

----------------------------------------------------------------------------
(* Properties of the member record *)

\* C5: stats and peak_rating are never None: they are {} after construction, and
\* update_stats(None) / update_peak_rating(None) leaves {} in its field
C5_FieldsNeverNull ==
    \A j \in 1..Len(members) :
        /\ members[j].stats # Null
        /\ members[j].peak_rating # Null
        /\ isinstance_dict(members[j].stats)
        /\ isinstance_dict(members[j].peak_rating)
        /\ last.op = "__init__" =>
            members[j].stats = EmptyObj /\ members[j].peak_rating = EmptyObj
        /\ last.op = "update_stats" /\ last.arg = Null => members[j].stats = EmptyObj
        /\ last.op = "update_peak_rating" /\ last.arg = Null =>
            members[j].peak_rating = EmptyObj

C5_Witness ==
    /\ last.op = "update_stats"
    /\ last.arg = Null
    /\ members[1].stats = EmptyObj
    /\ members[1].peak_rating # EmptyObj

\* every leaf of a section: the keys on the way to it joined by the separator
\* under the section's name, with the leaf's value
RECURSIVE LeafPaths(_, _)
LeafPaths(d, path) ==
    UNION {IF isinstance_dict(d.d[j].v)
           THEN LeafPaths(d.d[j].v, path \o "." \o d.d[j].k)
           ELSE {Entry(path \o "." \o d.d[j].k, d.d[j].v)}
           : j \in 1..Len(d.d)}

SectionLeaves(m) ==
    LeafPaths(m.raw_user, "user") \cup LeafPaths(m.raw_membership, "membership")
        \cup LeafPaths(m.stats, "stats") \cup LeafPaths(m.peak_rating, "peakRating")

\* C6: the record to_dict returns has exactly the dotted paths of the four
\* sections' leaves as keys, each bound to the leaf at that path
C6_FlattenedIsLeafPaths ==
    last.op = "to_dict" =>
        {last.ret.d[j] : j \in 1..Len(last.ret.d)} = SectionLeaves(members[1])

\* C7: the keys flattened from two different sections never coincide, and the
\* merged record has as many keys as the four flattened sections together
C7_SectionsDisjoint ==
    last.op = "to_dict" =>
        LET m == members[1]
            sections == <<flatten_dict(m.raw_user, "user"),
                          flatten_dict(m.raw_membership, "membership"),
                          flatten_dict(m.stats, "stats"),
                          flatten_dict(m.peak_rating, "peakRating")>>
        IN  /\ \A a, b \in 1..4 : a # b => Keys(sections[a]) \cap Keys(sections[b]) = {}
            /\ Len(last.ret.d) = Len(sections[1].d) + Len(sections[2].d)
                                   + Len(sections[3].d) + Len(sections[4].d)
            /\ Keys(last.ret) = UNION {Keys(sections[a]) : a \in 1..4}

\* all four sections hold a key "a"
C7_Witness ==
    /\ last.op = "to_dict"
    /\ "user.a" \in Keys(last.ret)
    /\ "membership.a.b" \in Keys(last.ret)
    /\ "stats.a" \in Keys(last.ret)
    /\ "peakRating.a" \in Keys(last.ret)

====
